---- MODULE Spec2Model ----
(***************************************************************************)
(* Healthy-Eating-Tracker (src/app.py): the account store (UserManager on  *)
(* top of SecurityManager) and the plan engine (DietPlanGenerator).        *)
(*                                                                         *)
(* Python strings are sequences of one-character strings, so that the      *)
(* validators and the sanitizer work on characters as the code does.       *)
(* Python floats are records [k, v]: k = "num" with the value v, or "nan", *)
(* "inf", "ninf"; None is the record k = "None".                           *)
(***************************************************************************)
EXTENDS Integers, Sequences, FiniteSets, TLC

VARIABLES users,        \* UserManager.users: the in-memory list of user dicts
          disk,         \* content of data/users.json as last written
          call,         \* the operation that has just run, with its arguments; "idle" between requests
          ret,          \* what that operation returned to its caller
          registered,   \* history: <<username, password>> of every record register appended
          plan_user,    \* DietPlanGenerator: the user_data dict passed in
          plan_pc,      \* DietPlanGenerator: which method last ran
          plan_calories,\* result of calculate_daily_calories
          plan_meals    \* result of generate_diet_plan

vars == <<users, disk, call, ret, registered, plan_user, plan_pc, plan_calories, plan_meals>>
acctVars == <<users, disk, call, ret, registered>>
planVars == <<plan_user, plan_pc, plan_calories, plan_meals>>

----------------------------------------------------------------------------
(* Bounds of the exploration *)

MaxUsers == 2   \* register is not explored beyond this many records

----------------------------------------------------------------------------
(* Python values *)

PyNone == [k |-> "None", v |-> 0]
Num(n) == [k |-> "num", v |-> n]
NaN == [k |-> "nan", v |-> 0]
PosInf == [k |-> "inf", v |-> 0]
NegInf == [k |-> "ninf", v |-> 0]
ValueError == [k |-> "ValueError", v |-> 0]

NoneArg == [t |-> "None", s |-> <<>>]
Str(s) == [t |-> "str", s |-> s]

Digits == {"0", "1", "2", "3", "4", "5", "6", "7", "8", "9"}
LowerCase == {"a", "b", "c", "d", "e", "f", "g", "h", "i", "j", "k", "l", "m",
              "n", "o", "p", "q", "r", "s", "t", "u", "v", "w", "x", "y", "z"}
UpperCase == {"A", "B", "C", "D", "E", "F", "G", "H", "I", "J", "K", "L", "M",
              "N", "O", "P", "Q", "R", "S", "T", "U", "V", "W", "X", "Y", "Z"}
WhiteSpace == {" ", "\t", "\n", "\r"}

DigitVal(c) == CASE c = "0" -> 0 [] c = "1" -> 1 [] c = "2" -> 2 [] c = "3" -> 3
                 [] c = "4" -> 4 [] c = "5" -> 5 [] c = "6" -> 6 [] c = "7" -> 7
                 [] c = "8" -> 8 [] c = "9" -> 9

RECURSIVE DecimalVal(_)
DecimalVal(s) == IF s = <<>> THEN 0
                 ELSE 10 * DecimalVal(SubSeq(s, 1, Len(s) - 1)) + DigitVal(s[Len(s)])

IsDigits(s) == Len(s) > 0 /\ \A i \in 1..Len(s) : s[i] \in Digits

\* float(str) on the texts the specifications pass: decimal integers with an
\* optional sign, "nan", "inf", "-inf", and text that is no number, which raises
\* ValueError. (float() also reads fractions, exponents and surrounding blanks;
\* no such text is passed here.)
ParseFloat(s) ==
    IF IsDigits(s) THEN Num(DecimalVal(s))
    ELSE IF Len(s) > 1 /\ s[1] = "-" /\ IsDigits(Tail(s)) THEN Num(0 - DecimalVal(Tail(s)))
    ELSE IF s = <<"n", "a", "n">> THEN NaN
    ELSE IF s = <<"i", "n", "f">> THEN PosInf
    ELSE IF s = <<"-", "i", "n", "f">> THEN NegInf
    ELSE ValueError

\* Python's < and > on floats: every comparison with nan is False
FloatLt(a, b) ==
    IF a.k = "nan" \/ b.k = "nan" THEN FALSE
    ELSE IF a.k = "ninf" THEN b.k # "ninf"
    ELSE IF a.k = "inf" THEN FALSE
    ELSE IF b.k = "inf" THEN TRUE
    ELSE IF b.k = "ninf" THEN FALSE
    ELSE a.v < b.v

FloatGt(a, b) == FloatLt(b, a)

----------------------------------------------------------------------------
(* SecurityManager *)

\* bcrypt.hashpw(password, gensalt()): a token that carries the salt and a
\* digest only the same password reproduces
hash_password(password, salt) == [alg |-> "bcrypt", salt |-> salt, pw |-> password]

Malformed == [alg |-> "malformed", salt |-> 0, pw |-> <<>>]

\* bcrypt.checkpw; a token bcrypt cannot read raises, which the code turns into False
verify_password(password, hashed) ==
    IF hashed.alg = "bcrypt" THEN hashed.pw = password ELSE FALSE

\* re.match(r'^[a-zA-Z0-9_]+$'): $ also matches before one trailing newline
MatchesUsernameRegex(s) ==
    LET ok(t) == Len(t) > 0 /\ \A i \in 1..Len(t) : t[i] \in LowerCase \cup UpperCase \cup Digits \cup {"_"}
    IN  \/ ok(s)
        \/ Len(s) > 1 /\ s[Len(s)] = "\n" /\ ok(SubSeq(s, 1, Len(s) - 1))

validate_username(username) ==
    IF Len(username) = 0 \/ Len(username) < 3 \/ Len(username) > 20 THEN FALSE
    ELSE MatchesUsernameRegex(username)

validate_password(password) == Len(password) # 0 /\ Len(password) >= 6

RECURSIVE LStrip(_)
LStrip(s) == IF s # <<>> /\ Head(s) \in WhiteSpace THEN LStrip(Tail(s)) ELSE s

RECURSIVE RStrip(_)
RStrip(s) == IF s # <<>> /\ s[Len(s)] \in WhiteSpace THEN RStrip(SubSeq(s, 1, Len(s) - 1)) ELSE s

Dangerous(c) == c \in {"<", ">", "\"", "'", "&", ";"}
NotDangerous(c) == ~Dangerous(c)

sanitize_input(input_str) ==
    IF input_str.t = "None" \/ input_str.s = <<>> THEN <<>>
    ELSE RStrip(LStrip(SelectSeq(input_str.s, NotDangerous)))

safe_float_convert(value, min_val, max_val) ==
    IF value.t = "None" \/ value.s = <<>> THEN PyNone
    ELSE LET num == ParseFloat(value.s)
         IN  IF num = ValueError THEN PyNone
             ELSE IF FloatLt(num, Num(min_val)) THEN Num(min_val)
             ELSE IF FloatGt(num, Num(max_val)) THEN Num(max_val)
             ELSE num

----------------------------------------------------------------------------
(* UserManager *)

HEIGHT_MIN == 100
HEIGHT_MAX == 250
WEIGHT_MIN == 30
WEIGHT_MAX == 200

Goals == {"weight-loss", "muscle-gain", "maintenance"}

\* **kwargs of update_profile: one slot per key, {} when the key is not passed
\* and {value} when it is. Python binds 'username' to the positional parameter,
\* so it can never arrive in kwargs.
Keys == {"nickname", "height", "weight", "target_weight", "goal", "password", "register_time"}
NoKwargs == [key \in Keys |-> {}]
Arg(kwargs, key) == CHOOSE x \in kwargs[key] : TRUE

\* json.dump to users.json: the whole list is written, the file is left as it
\* was (open failed), or the file is left cut short (the write failed)
SaveOutcomes == {"ok", "unwritten", "truncated"}

save_users_lost(us, old, outcome) == old

save_users(us, old, outcome) ==
    CASE outcome = "ok" -> [valid |-> TRUE, content |-> us]
      [] outcome = "unwritten" -> old
      [] outcome = "truncated" -> [valid |-> FALSE, content |-> <<>>]

UsernameExists_unchecked(us, username) == FALSE

UsernameExists(us, username) == \E i \in 1..Len(us) : us[i].username = username

new_user(username, password, nickname, height, weight, target_weight, salt, now) ==
    [username |-> username,
     password |-> hash_password(password, salt),
     nickname |-> sanitize_input(nickname),
     height |-> safe_float_convert(height, HEIGHT_MIN, HEIGHT_MAX),
     weight |-> safe_float_convert(weight, WEIGHT_MIN, WEIGHT_MAX),
     target_weight |-> safe_float_convert(target_weight, WEIGHT_MIN, WEIGHT_MAX),
     goal |-> "maintenance",
     register_time |-> now]

Result(ok, msg, data, saved) == [ok |-> ok, msg |-> msg, data |-> data, saved |-> saved]

Call(op, username, password, kwargs) ==
    [op |-> op, username |-> username, password |-> password, kwargs |-> kwargs]

RegisterOutcome_noDuplicateCheck(us, username, password) ==
    IF ~validate_username(username) THEN "Invalid username format (3-20 characters: letters, numbers, underscore)"
    ELSE IF ~validate_password(password) THEN "Password must be at least 6 characters"
    ELSE "append"

\* which return statement of register is taken
RegisterOutcome(us, username, password) ==
    IF ~validate_username(username) THEN "Invalid username format (3-20 characters: letters, numbers, underscore)"
    ELSE IF ~validate_password(password) THEN "Password must be at least 6 characters"
    ELSE IF UsernameExists(us, username) THEN "Username already exists"
    ELSE "append"

Register(username, password, nickname, height, weight, target_weight, salt, now, outcome) ==
    LET out == RegisterOutcome(users, username, password) IN
    /\ call.op = "idle"
    /\ call' = Call("register", username, password, NoKwargs)
    /\ IF out # "append"
       THEN /\ ret' = Result(FALSE, out, {}, "none")
            /\ UNCHANGED <<users, disk, registered>>
       ELSE /\ Len(users) < MaxUsers
            /\ users' = Append(users, new_user(username, password, nickname, height,
                                               weight, target_weight, salt, now))
            /\ disk' = save_users(users', disk, outcome)
            /\ registered' = registered \cup {<<username, password>>}
            /\ ret' = IF outcome = "ok"
                      THEN Result(TRUE, "Registration successful", {}, outcome)
                      ELSE Result(FALSE, "Registration failed: data save error", {}, outcome)
    /\ UNCHANGED planVars

WithoutPassword_kept(user) == user

\* user.copy() with the 'password' key popped
WithoutPassword(user) == [key \in (DOMAIN user) \ {"password"} |-> user[key]]

\* the records the loop of login returns on: same username and the password verifies
LoginMatches(us, username, password) ==
    {i \in 1..Len(us) : us[i].username = username /\ verify_password(password, us[i].password)}

login_leaky(us, username, password) ==
    LET m == LoginMatches(us, username, password) IN
    IF m # {}
    THEN Result(TRUE, "", {WithoutPassword(us[CHOOSE i \in m : \A j \in m : i <= j])}, "none")
    ELSE IF \E i \in 1..Len(us) : us[i].username = username
    THEN Result(FALSE, "Incorrect username or password", {}, "none")
    ELSE Result(FALSE, "User does not exist", {}, "none")

login(us, username, password) ==
    LET m == LoginMatches(us, username, password) IN
    IF m # {}
    THEN Result(TRUE, "", {WithoutPassword(us[CHOOSE i \in m : \A j \in m : i <= j])}, "none")
    ELSE Result(FALSE, "Incorrect username or password", {}, "none")

Login(username, password) ==
    /\ call.op = "idle"
    /\ call' = Call("login", username, password, NoKwargs)
    /\ ret' = login(users, username, password)
    /\ UNCHANGED <<users, disk, registered>>
    /\ UNCHANGED planVars

\* the validate-and-sanitize block of update_profile, key by key
ConvertKwargs(kwargs) ==
    [key \in Keys |->
        CASE key = "nickname" -> {sanitize_input(x) : x \in kwargs[key]}
          [] key = "height" -> {safe_float_convert(x, HEIGHT_MIN, HEIGHT_MAX) : x \in kwargs[key]}
          [] key = "weight" -> {safe_float_convert(x, WEIGHT_MIN, WEIGHT_MAX) : x \in kwargs[key]}
          [] key = "target_weight" -> {safe_float_convert(x, WEIGHT_MIN, WEIGHT_MAX) : x \in kwargs[key]}
          [] OTHER -> kwargs[key]]

GoalRejected_unchecked(kwargs) == FALSE

GoalRejected(kwargs) == kwargs["goal"] # {} /\ Arg(kwargs, "goal") \notin Goals

\* 'if value is not None: user[key] = value', for every key of kwargs
Assigned_evenNone(converted, key) == converted[key] # {}

\* (None reaches the loop only from safe_float_convert: the other keys' arguments
\* are never None here)
Assigned(converted, key) ==
    /\ converted[key] # {}
    /\ ~(key \in {"height", "weight", "target_weight"} /\ Arg(converted, key) = PyNone)

ApplyKwargs(user, converted) ==
    [key \in DOMAIN user |-> IF key \in Keys /\ Assigned(converted, key)
                             THEN Arg(converted, key) ELSE user[key]]

FirstIndex(us, username) ==
    CHOOSE i \in 1..Len(us) : /\ us[i].username = username
                              /\ \A j \in 1..(i - 1) : us[j].username # username

UpdateProfile(username, kwargs, outcome) ==
    /\ call.op = "idle"
    /\ call' = Call("update_profile", username, <<>>, kwargs)
    /\ IF ~UsernameExists(users, username)
       THEN /\ ret' = Result(FALSE, "User does not exist", {}, "none")
            /\ UNCHANGED <<users, disk>>
       ELSE IF GoalRejected(kwargs)
       THEN /\ ret' = Result(FALSE, "Invalid goal type", {}, "none")
            /\ UNCHANGED <<users, disk>>
       ELSE LET i == FirstIndex(users, username) IN
            /\ users' = [users EXCEPT ![i] = ApplyKwargs(users[i], ConvertKwargs(kwargs))]
            /\ disk' = save_users(users', disk, outcome)
            /\ ret' = IF outcome = "ok"
                      THEN Result(TRUE, "Profile updated successfully", {}, outcome)
                      ELSE Result(FALSE, "Profile update failed: data save error", {}, outcome)
    /\ UNCHANGED registered
    /\ UNCHANGED planVars

NoCall == Call("idle", <<>>, <<>>, NoKwargs)
NoResult == Result(TRUE, "", {}, "none")

\* the caller (a route of the web layer) has taken the result; the next request may come
Return ==
    /\ call.op # "idle"
    /\ call' = NoCall
    /\ ret' = NoResult
    /\ UNCHANGED <<users, disk, registered>>
    /\ UNCHANGED planVars

----------------------------------------------------------------------------
(* DietPlanGenerator *)

DEFAULT_HEIGHT == 170
DEFAULT_WEIGHT == 65
MIN_CALORIES == 1200
FALLBACK_CALORIES == 2000

\* user_data.get(key) or default: None and 0.0 are falsy, nan is not
OrDefault(x, default) == IF x = PyNone \/ x = Num(0) THEN Num(default) ELSE x

\* int(): truncation toward zero of hundredths
Trunc100(n) == IF n >= 0 THEN n \div 100 ELSE 0 - ((0 - n) \div 100)

Max(a, b) == IF a >= b THEN a ELSE b

GoalAdjust(goal) == IF goal = "weight-loss" THEN 0 - 400
                    ELSE IF goal = "muscle-gain" THEN 300
                    ELSE 0

calculate_daily_calories_signSlip(user_data) ==
    LET height == OrDefault(user_data.height, DEFAULT_HEIGHT)
        weight == OrDefault(user_data.weight, DEFAULT_WEIGHT)
    IN  IF height.k # "num" \/ weight.k # "num" THEN FALLBACK_CALORIES
        ELSE LET base100 == 625 * height.v - 1000 * weight.v - 500 * 25 + 500
                            + 100 * GoalAdjust(user_data.goal)
             IN  Max(MIN_CALORIES, Trunc100(base100))

\* base_calories is kept in hundredths: 10 * weight + 6.25 * height - 5 * 25 + 5.
\* int() of nan or inf raises, and the except clause returns the default.
calculate_daily_calories(user_data) ==
    LET height == OrDefault(user_data.height, DEFAULT_HEIGHT)
        weight == OrDefault(user_data.weight, DEFAULT_WEIGHT)
    IN  IF height.k # "num" \/ weight.k # "num" THEN FALLBACK_CALORIES
        ELSE LET base100 == 1000 * weight.v + 625 * height.v - 500 * 25 + 500
                            + 100 * GoalAdjust(user_data.goal)
             IN  Max(MIN_CALORIES, Trunc100(base100))

Meal(name, calories, protein, carbs, fat) ==
    [name |-> name, calories |-> calories, protein |-> protein, carbs |-> carbs, fat |-> fat]

diet_plan_templates(goal) ==
    CASE goal = "weight-loss" -> << Meal("Breakfast", 400, 20, 40, 15),
                                    Meal("Lunch", 500, 30, 50, 20),
                                    Meal("Dinner", 400, 25, 30, 15) >>
      [] goal = "muscle-gain" -> << Meal("Breakfast", 600, 40, 60, 20),
                                    Meal("Lunch", 700, 50, 70, 25),
                                    Meal("Dinner", 600, 45, 50, 20) >>
      [] OTHER                -> << Meal("Breakfast", 500, 25, 50, 20),
                                    Meal("Lunch", 600, 35, 60, 25),
                                    Meal("Dinner", 500, 30, 40, 20) >>

RECURSIVE SumCalories(_)
SumCalories(meals) == IF meals = <<>> THEN 0 ELSE Head(meals).calories + SumCalories(Tail(meals))

Round_truncating(num, den) == {num \div den}

\* round(x * (daily / total)) for x * daily / total = num / den >= 0. Off a tie
\* the float product rounds to the nearest integer. On an exact tie the product
\* is one ulp above or below .5 or exactly on it (50 * (1417 / 1300) is
\* 54.50000000000001, 50 * (1495 / 1300) is 57.49999999999999), so round() yields
\* either neighbour: both are kept.
Round(num, den) ==
    LET q == num \div den
        r == num % den
    IN  IF 2 * r < den THEN {q}
        ELSE IF 2 * r > den THEN {q + 1}
        ELSE {q, q + 1}

ScaledMeals(meal, daily, total) ==
    {Meal(meal.name, Max(100, c), Max(5, p), Max(10, cb), Max(5, f)) :
        c \in Round(meal.calories * daily, total),
        p \in Round(meal.protein * daily, total),
        cb \in Round(meal.carbs * daily, total),
        f \in Round(meal.fat * daily, total)}

\* the set of plans generate_diet_plan can return for user_data
generate_diet_plan(user_data) ==
    LET daily_calories == calculate_daily_calories(user_data)
        template == diet_plan_templates(user_data.goal)
        total == SumCalories(template)
    IN  {<<b, l, d>> : b \in ScaledMeals(template[1], daily_calories, total),
                       l \in ScaledMeals(template[2], daily_calories, total),
                       d \in ScaledMeals(template[3], daily_calories, total)}

CalculateDailyCalories ==
    /\ plan_pc = "idle"
    /\ plan_calories' = calculate_daily_calories(plan_user)
    /\ plan_pc' = "calories"
    /\ UNCHANGED <<plan_user, plan_meals>>
    /\ UNCHANGED acctVars

GenerateDietPlan ==
    /\ plan_pc = "idle"
    /\ plan_meals' \in generate_diet_plan(plan_user)
    /\ plan_pc' = "plan"
    /\ UNCHANGED <<plan_user, plan_calories>>
    /\ UNCHANGED acctVars

----------------------------------------------------------------------------
(* Inputs *)

amy == <<"a", "m", "y">>
bob == <<"b", "o", "b">>
badname == <<"a", "m", "!">>
secret == <<"s", "e", "c", "r", "e", "t">>
hunter2 == <<"h", "u", "n", "t", "e", "r", "2">>
short == <<"s", "h", "o", "r", "t">>

Opt(S) == {{}} \cup {{x} : x \in S}

\* the keyword-argument dicts: any subset of the keys, values drawn per key
KwargsOver(N, H, W, T, G, P, R) ==
    [nickname : Opt(N), height : Opt(H), weight : Opt(W), target_weight : Opt(T),
     goal : Opt(G), password : Opt(P), register_time : Opt(R)]

InitAccounts ==
    /\ users = <<>>
    /\ disk = [valid |-> TRUE, content |-> <<>>]
    /\ call = NoCall
    /\ ret = NoResult
    /\ registered = {}

IdlePlan ==
    /\ plan_user = [height |-> PyNone, weight |-> PyNone, goal |-> "maintenance"]
    /\ plan_pc = "idle"
    /\ plan_calories = 0
    /\ plan_meals = <<>>

Init == InitAccounts /\ IdlePlan

\* Spec: identities, credentials and persistence. Two valid usernames and an
\* invalid one, two valid passwords and an invalid one, every save outcome;
\* update_profile is given the 'password' key as well as a profile field.
UsernameInputs == {amy, bob, badname}
PasswordInputs == {secret, hunter2, short}
KwargsInputs ==
    KwargsOver({}, {}, {}, {}, {"weight-loss", "invalid-value"},
               {hash_password(hunter2, 1), Malformed}, {})

Next ==
    \/ \E username \in UsernameInputs, password \in PasswordInputs, outcome \in SaveOutcomes :
          Register(username, password, Str(<<>>), NoneArg, NoneArg, NoneArg, 1, 1, outcome)
    \/ \E username \in UsernameInputs, password \in PasswordInputs :
          Login(username, password)
    \/ \E username \in UsernameInputs, kwargs \in KwargsInputs, outcome \in SaveOutcomes :
          UpdateProfile(username, kwargs, outcome)
    \/ Return

Spec == Init /\ [][Next]_vars

\* ProfileSpec: the profile fields. One user, every kind of numeric argument
\* (None, empty, unparsable, nan, inf, below, inside and above the range), the
\* 'register_time' key, saves that succeed.
HeightInputs == {Str(<<"a", "b", "c">>), Str(<<"n", "a", "n">>), Str(<<"5", "0">>), Str(<<"1", "7", "0">>)}
WeightInputs == {Str(<<>>), Str(<<"6", "5">>), Str(<<"i", "n", "f">>)}
TargetWeightInputs == {NoneArg, Str(<<"1", "0">>)}
ProfileKwargsInputs ==
    KwargsOver({Str(<<" ", "<", "A", "l", ">">>)}, HeightInputs, WeightInputs, TargetWeightInputs,
               {"weight-loss", "muscle-gain", "invalid-value"}, {}, {2})

NextProfile ==
    \/ \E password \in {secret, short}, height \in HeightInputs, weight \in WeightInputs,
          target_weight \in TargetWeightInputs :
          Register(amy, password, Str(<<>>), height, weight, target_weight, 1, 1, "ok")
    \/ \E username \in {amy, bob}, password \in {secret, hunter2} :
          Login(username, password)
    \/ \E kwargs \in ProfileKwargsInputs :
          UpdateProfile(amy, kwargs, "ok")
    \/ Return

ProfileSpec == Init /\ [][NextProfile]_vars

\* PlanSpec: the plan engine on every record the store can hold: heights and
\* weights absent, nan or whole numbers of their range, and the three goals.
HeightValues == {PyNone, NaN} \cup {Num(n) : n \in HEIGHT_MIN..HEIGHT_MAX}
WeightValues == {PyNone, NaN} \cup {Num(n) : n \in WEIGHT_MIN..WEIGHT_MAX}

PlanInit ==
    /\ InitAccounts
    /\ plan_user \in [height : HeightValues, weight : WeightValues, goal : Goals]
    /\ plan_pc = "idle"
    /\ plan_calories = 0
    /\ plan_meals = <<>>

PlanNext == CalculateDailyCalories \/ GenerateDietPlan

PlanSpec == PlanInit /\ [][PlanNext]_vars

----------------------------------------------------------------------------
(* Properties *)

Present(us, username) == \E i \in 1..Len(us) : us[i].username = username
RecordOf(us, username) == us[CHOOSE i \in 1..Len(us) : us[i].username = username]
InRange(x, lo, hi) == x = PyNone \/ (x.k = "num" /\ lo <= x.v /\ x.v <= hi)
Abs(n) == IF n >= 0 THEN n ELSE 0 - n

\* C1: in every reachable state, whatever register, login and update_profile
\* calls were made and whichever saves failed, no two records of the
\* collection have the same username.
C1_UniqueUsernames ==
    \A i, j \in 1..Len(users) : i # j => users[i].username # users[j].username

\* a register of a username already stored has been refused, in a store of two
\* records, after a save that failed earlier (the file is behind the list)
C1_Witness ==
    /\ call.op = "register"
    /\ ret.msg = "Username already exists"
    /\ Len(users) = 2
    /\ disk # [valid |-> TRUE, content |-> users]

\* C2 (as claimed): login succeeds only with the password the user registered with.
C2_OnlyRegisteredPasswordAccepted ==
    (call.op = "login" /\ ret.ok) => <<call.username, call.password>> \in registered

\* C3: register of a valid username that is not in the store, with a valid
\* password, leaves a store in which login with the same credentials succeeds,
\* and the record login returns has no 'password' key and otherwise the keys
\* and values of the stored record.
C3_RegisterThenLogin ==
    [][(/\ call.op = "idle"
        /\ call'.op = "register"
        /\ validate_username(call'.username)
        /\ validate_password(call'.password)
        /\ ~Present(users, call'.username))
       => LET r == login(users', call'.username, call'.password)
              stored == RecordOf(users', call'.username)
          IN  /\ Present(users', call'.username)
              /\ r.ok
              /\ \E data \in r.data :
                    /\ r.data = {data}
                    /\ DOMAIN data = (DOMAIN stored) \ {"password"}
                    /\ \A key \in DOMAIN data : data[key] = stored[key]]_vars

\* a second user has just been registered and the save failed
C3_Witness ==
    /\ call.op = "register"
    /\ ret.saved = "unwritten"
    /\ Len(users) = 2
    /\ users[2].username = call.username

\* C4 (as claimed): register of a username already in the store answers
\* "Username already exists" whatever the password, and changes nothing.
C4_DuplicateWhateverPassword ==
    [][(call.op = "idle" /\ call'.op = "register" /\ Present(users, call'.username))
       => (ret'.msg = "Username already exists" /\ ~ret'.ok /\ users' = users)]_vars

\* C4 (amended): register of a username already in the store fails and changes
\* nothing; its answer is "Username already exists" for every valid password,
\* the stored one or another, and "Password must be at least 6 characters" for
\* an invalid one, since the password is validated before the store is searched.
C4_DuplicateForValidPassword ==
    [][(call.op = "idle" /\ call'.op = "register" /\ Present(users, call'.username))
       => /\ ~ret'.ok
          /\ users' = users
          /\ disk' = disk
          /\ ret'.msg = IF Len(call'.password) >= 6 THEN "Username already exists"
                        ELSE "Password must be at least 6 characters"]_vars

\* a stored username was registered again with another valid password, and refused
C4_Witness ==
    /\ call.op = "register"
    /\ ret.msg = "Username already exists"
    /\ Len(call.password) >= 6
    /\ <<call.username, call.password>> \notin registered

\* C5: update_profile of a stored user with a goal outside the three goals
\* answers "Invalid goal type", leaves the list as it was, whatever else the
\* call carries, and does not save.
C5_InvalidGoalChangesNothing ==
    [][(/\ call.op = "idle"
        /\ call'.op = "update_profile"
        /\ Present(users, call'.username)
        /\ call'.kwargs.goal # {}
        /\ \A g \in call'.kwargs.goal : g \notin {"weight-loss", "muscle-gain", "maintenance"})
       => /\ ret' = Result(FALSE, "Invalid goal type", {}, "none")
          /\ users' = users
          /\ disk' = disk]_vars

\* an invalid goal came with a valid height that differs from the stored one
C5_Witness ==
    /\ call.op = "update_profile"
    /\ ret.msg = "Invalid goal type"
    /\ call.kwargs.height = {Str(<<"1", "7", "0">>)}
    /\ call.kwargs.nickname # {}
    /\ users[1].height # Num(170)
    /\ users[1].nickname = <<>>

\* C6 (as claimed): every stored goal is one of the three goals, every stored
\* height is absent or in [100, 250], every stored weight and target weight is
\* absent or in [30, 200].
C6_FieldsInRange ==
    \A i \in 1..Len(users) :
        /\ users[i].goal \in {"weight-loss", "muscle-gain", "maintenance"}
        /\ InRange(users[i].height, 100, 250)
        /\ InRange(users[i].weight, 30, 200)
        /\ InRange(users[i].target_weight, 30, 200)

Unparsable(value) == value.t = "None" \/ value.s = <<>> \/ ParseFloat(value.s) = ValueError

\* C7: in an update_profile that passes its checks, a numeric key whose value
\* is None, empty or unparsable leaves the stored field as it was, while the
\* keys of the same call that have a value are stored: the sanitized nickname,
\* the clamped numbers, the goal.
C7_UnparsableIsNoChange ==
    [][(/\ call.op = "idle"
        /\ call'.op = "update_profile"
        /\ Present(users, call'.username)
        /\ \A g \in call'.kwargs.goal : g \in {"weight-loss", "muscle-gain", "maintenance"})
       => LET before == RecordOf(users, call'.username)
              after == RecordOf(users', call'.username)
              kw == call'.kwargs
          IN  /\ \A key \in {"height", "weight", "target_weight"} :
                    \A value \in kw[key] :
                       IF Unparsable(value) THEN after[key] = before[key]
                       ELSE after[key] = safe_float_convert(value,
                                IF key = "height" THEN 100 ELSE 30,
                                IF key = "height" THEN 250 ELSE 200)
              /\ \A value \in kw.nickname : after.nickname = sanitize_input(value)
              /\ \A value \in kw.goal : after.goal = value]_vars

\* an unparsable height left the stored 170 alone while the goal of the same call was stored
C7_Witness ==
    /\ call.op = "update_profile"
    /\ ret.ok
    /\ call.kwargs.height = {Str(<<"a", "b", "c">>)}
    /\ call.kwargs.goal = {"muscle-gain"}
    /\ users[1].height = Num(170)
    /\ users[1].goal = "muscle-gain"

\* C8: a login that fails returns one and the same result, whether the
\* username is unknown or the password is wrong.
C8_OneFailureResult ==
    (call.op = "login" /\ ~ret.ok)
       => ret = [ok |-> FALSE, msg |-> "Incorrect username or password", data |-> {}, saved |-> "none"]

\* a login of a stored username failed on the password
C8_Witness ==
    /\ call.op = "login"
    /\ ~ret.ok
    /\ Present(users, call.username)
    /\ <<call.username, call.password>> \notin registered

\* C9: for a record with a numeric weight, the daily calories are no more than
\* those of the same record with any larger weight of the range.
C9_MonotoneInWeight ==
    (plan_pc = "calories" /\ plan_user.weight.k = "num")
       => \A w2 \in 30..200 :
             plan_user.weight.v <= w2
                => plan_calories <= calculate_daily_calories([plan_user EXCEPT !.weight = Num(w2)])

\* the calories of a record with a numeric weight, above the floor of 1200
C9_Witness ==
    /\ plan_pc = "calories"
    /\ plan_user.weight.k = "num"
    /\ plan_user.weight.v < 200
    /\ plan_calories > 1200

\* C10: the plan is Breakfast, Lunch, Dinner; each meal's calories are within
\* 0.5 of its share of the daily calories, so their sum is less than 2 away
\* from the daily calories; every meal has calories >= 100, protein >= 5,
\* carbs >= 10 and fat >= 5.
C10_PlanSumsToTarget ==
    plan_pc = "plan"
       => LET daily == calculate_daily_calories(plan_user)
              template == diet_plan_templates(plan_user.goal)
              total == template[1].calories + template[2].calories + template[3].calories
          IN  /\ Len(plan_meals) = 3
              /\ <<plan_meals[1].name, plan_meals[2].name, plan_meals[3].name>>
                    = <<"Breakfast", "Lunch", "Dinner">>
              /\ \A i \in 1..3 :
                    /\ 2 * Abs(plan_meals[i].calories * total - template[i].calories * daily) <= total
                    /\ plan_meals[i].calories >= 100
                    /\ plan_meals[i].protein >= 5
                    /\ plan_meals[i].carbs >= 10
                    /\ plan_meals[i].fat >= 5
              /\ Abs(plan_meals[1].calories + plan_meals[2].calories + plan_meals[3].calories - daily) < 2

\* a plan whose rounded meals do not sum to the daily calories exactly
C10_Witness ==
    /\ plan_pc = "plan"
    /\ plan_meals[1].calories + plan_meals[2].calories + plan_meals[3].calories
          # calculate_daily_calories(plan_user)

\* C11 (as claimed): update_profile leaves the username, the password hash and
\* the registration time of its record as they were, leaves every other record
\* as it was and keeps the length of the list; over every step the list only
\* grows at its end, and each record keeps its username, hash and
\* registration time.
C11_IdentityFieldsFrozen ==
    [][/\ Len(users') >= Len(users)
       /\ \A i \in 1..Len(users) :
             /\ users'[i].username = users[i].username
             /\ users'[i].password = users[i].password
             /\ users'[i].register_time = users[i].register_time
       /\ call'.op = "update_profile"
             => /\ Len(users') = Len(users)
                /\ \A i \in 1..Len(users) :
                      users[i].username # call'.username => users'[i] = users[i]]_vars

\* C12: when register or update_profile answers success, the saved file holds
\* exactly the list in memory. When the write fails the answer is the
\* data-save-error failure and the list in memory is updated all the same: after
\* register the new user is there, can log in, and registering the name again
\* answers "Username already exists"; after update_profile the record carries
\* the values passed. An answer of invalid username, invalid password, existing
\* username, unknown user or invalid goal comes without a save and leaves both
\* the list and the file as they were. Every answer is one of these three kinds.
ValidationFailures ==
    {"Invalid username format (3-20 characters: letters, numbers, underscore)",
     "Password must be at least 6 characters",
     "Username already exists",
     "User does not exist",
     "Invalid goal type"}

C12_SaveFollowsMemory ==
    [][(call.op = "idle" /\ call'.op \in {"register", "update_profile"}) =>
          LET u == call'.username
              p == call'.password
              kw == call'.kwargs
              failedWrite == ret'.saved \in {"unwritten", "truncated"}
              refused == ~ret'.ok /\ ret'.msg \in ValidationFailures
          IN
          /\ ret'.ok => /\ ret'.saved = "ok"
                        /\ disk' = [valid |-> TRUE, content |-> users']
          /\ failedWrite =>
                /\ ~ret'.ok
                /\ call'.op = "register" =>
                      /\ ret'.msg = "Registration failed: data save error"
                      /\ ~Present(users, u)
                      /\ Len(users') = Len(users) + 1
                      /\ users'[Len(users')].username = u
                      /\ login(users', u, p).ok
                      /\ RegisterOutcome(users', u, p) = "Username already exists"
                /\ call'.op = "update_profile" =>
                      /\ ret'.msg = "Profile update failed: data save error"
                      /\ Present(users, u)
                      /\ \A key \in {"goal", "password"} :
                            kw[key] # {} => RecordOf(users', u)[key] = Arg(kw, key)
                /\ ret'.saved = "unwritten" => disk' = disk
                /\ ret'.saved = "truncated" => ~disk'.valid
          /\ refused => /\ ret'.saved = "none"
                        /\ users' = users
                        /\ disk' = disk
          /\ ret'.ok \/ failedWrite \/ refused]_vars

\* a registration whose write broke off: the caller holds the failure, the user
\* is in memory and the file is unreadable
C12_Witness ==
    /\ call.op = "register"
    /\ ret.saved = "truncated"
    /\ ~ret.ok
    /\ Present(users, call.username)
    /\ login(users, call.username, call.password).ok
    /\ ~disk.valid

====
